---- MODULE Spec2Model ----
(***************************************************************************)
(* Oracle -> DuckDB replication engine (hpf_platform/etl).                 *)
(*                                                                         *)
(* The state machines of this module:                                      *)
(*   SpecSeq    the sequential incremental reader (_sequential_read)       *)
(*              driven by oracle_table_resource over several runs, and     *)
(*              SpecSeqLive, the same under a consumer that keeps reading; *)
(*   SpecPar    the chunk planner and the parallel range reader            *)
(*              (OracleParallelReader) with _parallel_read's watermark,    *)
(*              and SpecParLive, the same with threads that keep running;  *)
(*   SpecOrch   the orchestrator (SmartSyncAgent.run: execute_plan, then   *)
(*              verify_sync) up to the exit of the process;                *)
(*   SpecVerify the row-count verifier (SyncVerifier.verify_row_count);    *)
(*   SpecLoad   the partition load of run_fast_sync;                       *)
(*   SpecPlan   the plan of SmartSyncAgent and the load it dispatches;     *)
(*   SpecTypes  oracle_type_to_pyarrow and the two destination schemas;    *)
(*   SpecStore  the watermark file written by _update_dlt_state.           *)
(*                                                                         *)
(* A Python None is the empty sequence <<>>, a value v is <<v>>.           *)
(***************************************************************************)
EXTENDS Integers, Sequences, FiniteSets, TLC

\* ------------------------------------------------------------------ bounds
MaxKey == 2
MaxRows == 3
MaxBatch == 3
MaxRuns == 2
MaxParts == 2
MaxPartRows == 1
MaxVerifyCount == 3

\* "DATE '1900-01-01'", the SQL literal a first sync over a DATE column
\* starts from, as a point of the key domain.
DateFloor == 1

Keys == 0..MaxKey
None == <<>>
Some(v) == <<v>>

VARIABLES
    table,            \* source table: row id -> range-column value
    batch_size,       \* table_config["batch_size"]
    incremental_column, \* TRUE when an incremental column is configured
    is_date_type,     \* range_col_type is a timestamp (Oracle DATE)
    resource_state,   \* dlt.current.resource_state()['last_value']
    sq_pc,            \* position of the _sequential_read generator
    last_value,       \* its local last_value: [lit, v]
    is_first_sync,    \* its local is_first_sync
    batch_data,       \* rows of the batch being yielded (row ids)
    yield_pos,        \* next position of batch_data to yield
    run_rows,         \* rows yielded by the current run
    emitted,          \* rows ever handed to the consumer
    run_start_state,  \* resource_state when the current run started
    runs,             \* runs started so far
    added,            \* a source row was inserted since the current run started
    added_between     \* a source row was inserted between the previous run and this one

seq_vars == <<batch_size, incremental_column, is_date_type,
              resource_state, sq_pc, last_value, is_first_sync, batch_data,
              yield_pos, run_rows, emitted, run_start_state, runs, added,
              added_between>>

VARIABLES
    num_workers,          \* OracleParallelReader.num_workers
    pr_last_value,        \* the last_value argument of parallel_read
    pr_pc,                \* position of the parallel_read generator
    chunks,               \* the planned chunks: <<chunk_id, start, end>>
    worker,               \* chunk_id -> "queued" | "running" | "finished"
    attempts,             \* chunk_id -> number of times read_chunk was started
    failed,               \* chunk ids whose read_chunk raised
    result_queue,         \* Queue of <<chunk_id, data>>
    completed_chunks,     \* chunk_id -> data, received and not yet released
    next_chunk_to_yield,
    chunks_received,
    out,                  \* the emitted stream: <<chunk_id, row>>
    timeouts,             \* times result_queue.get(timeout=600) raised Empty
    pr_state              \* dlt resource_state()['last_value'] of the table

par_vars == <<num_workers, pr_last_value, pr_pc, chunks, worker, attempts,
              failed, result_queue, completed_chunks, next_chunk_to_yield,
              chunks_received, out, timeouts, pr_state>>

VARIABLES
    strategies,       \* plan.strategies: table -> [sync_mode, incremental_column]
    source_count,     \* table -> rows in the Oracle table
    target_count,     \* table -> rows in the DuckDB table, -1 when it is absent
    state_file,       \* state.json: table -> last_value
    prev_state,       \* state_file when the run started
    sync_results,     \* execute_plan's results: table -> status
    verify_results,   \* verify_sync's results: table -> VerifyResult
    agent_pc,         \* position of SmartSyncAgent.run
    agent_idx,        \* index of the table the current loop is at
    run_status,       \* "status" of the dict run() returns, "none" before
    exit_code         \* exit status of the process, None while it runs

orch_vars == <<strategies, source_count, target_count, state_file, prev_state,
               sync_results, verify_results, agent_pc, agent_idx, run_status,
               exit_code>>

VARIABLES
    nparts,          \* load -> len(partitions) of its table
    ld_pc,           \* load -> position of run_fast_sync's partition branch
    pworker,         \* load -> partition idx -> state of _sync_partition_worker
    presult,         \* load -> partition idx -> the dict the worker returned
    temp_files,      \* the destination directory: file name -> rows of its table "data"
    created,         \* load -> names of the temp files its workers connected to
    dest,            \* load -> rows of the destination table, -1 when absent
    ld_rows,         \* load -> results[table_name]['rows']
    merge_failed     \* load -> an ATTACH or a merge statement raised

load_vars == <<nparts, ld_pc, pworker, presult, temp_files, created, dest,
               ld_rows, merge_failed>>

VARIABLES
    vf_source,       \* rows of the Oracle table
    vf_target,       \* rows of the DuckDB table, -1 when it does not exist
    vf_src_ok,       \* the Oracle count can be taken
    vf_dst_ok,       \* the DuckDB file can be opened
    vf_result,       \* the VerifyResult returned
    vf_pc            \* "call" before verify_row_count, "returned" after

verify_vars == <<vf_source, vf_target, vf_src_ok, vf_dst_ok, vf_result, vf_pc>>

VARIABLES
    metadata,        \* metadata_list: table -> TableMetadata
    advisor,         \* what the LLM call did: "raise", "nothing", "unparsable", "json"
    plan,            \* SyncPlan.strategies: table -> SyncStrategy, None before
    pl_pc,           \* "start", "planned", "raised"
    route,           \* table -> the load execute_plan called for it
    loaded           \* table -> rows of its DuckDB table after the load,
                     \* -1 when the table does not exist

plan_vars == <<metadata, advisor, plan, pl_pc, route, loaded>>

VARIABLES
    column,          \* one row of ALL_TAB_COLUMNS: data_type, precision, scale
    pa_schema,       \* the pyarrow type of the column's field, None before
    bulk_type,       \* the column type of the table run_fast_sync creates
    dlt_columns,     \* the data_type hint oracle_source passes to dlt
    ty_pc            \* "column", "schema", "done"

types_vars == <<column, pa_schema, bulk_type, dlt_columns, ty_pc>>

VARIABLES
    state_json,      \* pipeline name -> content of its state.json, None when
                     \* the file does not exist
    st_before,       \* state_json before the last _update_dlt_state call
    st_call,         \* arguments of the last call, None before the first
    st_writes        \* number of calls made

store_vars == <<state_json, st_before, st_call, st_writes>>

\* the variables of the machines declared after the planner's
aux_vars == <<types_vars, store_vars>>

\* the variables of the readers, the orchestrator, the loader, the verifier
\* and the planner
core_vars == <<table, seq_vars, par_vars, orch_vars, load_vars, verify_vars,
               plan_vars>>

vars == <<table, seq_vars, par_vars, orch_vars, load_vars, verify_vars,
          plan_vars, aux_vars>>

\* no schema is being computed
TypesIdle ==
    /\ column = <<>>
    /\ pa_schema = None
    /\ bulk_type = None
    /\ dlt_columns = None
    /\ ty_pc = "off"

\* no watermark file is in use on its own
StoreIdle ==
    /\ state_json = <<>>
    /\ st_before = <<>>
    /\ st_call = None
    /\ st_writes = 0

AuxIdle ==
    /\ TypesIdle
    /\ StoreIdle

\* no plan is being generated
PlanIdle ==
    /\ metadata = <<>>
    /\ advisor = "none"
    /\ plan = None
    /\ pl_pc = "off"
    /\ route = <<>>
    /\ loaded = <<>>

\* the verifier is not in use on its own
VerifyIdle ==
    /\ vf_source = 0
    /\ vf_target = 0
    /\ vf_src_ok = TRUE
    /\ vf_dst_ok = TRUE
    /\ vf_result = <<>>
    /\ vf_pc = "off"

\* two run_fast_sync calls (use_partition=True, one table each) whose
\* duckdb_path lies in the same directory
Loads == {"A", "B"}
Parts == 0..(MaxParts - 1)

\* no partition load is running
LoadIdle ==
    /\ nparts = [l \in Loads |-> 0]
    /\ ld_pc = [l \in Loads |-> "off"]
    /\ pworker = [l \in Loads |-> [i \in Parts |-> "none"]]
    /\ presult = [l \in Loads |-> [i \in Parts |-> None]]
    /\ temp_files = <<>>
    /\ created = [l \in Loads |-> {}]
    /\ dest = [l \in Loads |-> -1]
    /\ ld_rows = [l \in Loads |-> 0]
    /\ merge_failed = [l \in Loads |-> FALSE]

\* the orchestrator is not running
OrchIdle ==
    /\ strategies = <<>>
    /\ source_count = <<>>
    /\ target_count = <<>>
    /\ state_file = <<>>
    /\ prev_state = <<>>
    /\ sync_results = <<>>
    /\ verify_results = <<>>
    /\ agent_pc = "off"
    /\ agent_idx = 0
    /\ run_status = "none"
    /\ exit_code = None

\* the parallel reader is not running
ParIdle ==
    /\ num_workers = 1
    /\ pr_last_value = None
    /\ pr_pc = "off"
    /\ chunks = <<>>
    /\ worker = <<>>
    /\ attempts = <<>>
    /\ failed = {}
    /\ result_queue = <<>>
    /\ completed_chunks = <<>>
    /\ next_chunk_to_yield = 0
    /\ chunks_received = 0
    /\ out = <<>>
    /\ timeouts = 0
    /\ pr_state = None

\* ------------------------------------------------------------ SQL helpers
Min(S) == CHOOSE x \in S : \A y \in S : x <= y
Max(S) == CHOOSE x \in S : \A y \in S : x >= y

\* ORDER BY <range column> (ties by row id).
RowLess(t, a, b) == t[a] < t[b] \/ (t[a] = t[b] /\ a < b)

RECURSIVE SortedRows(_, _)
SortedRows(t, S) ==
    IF S = {} THEN <<>>
    ELSE LET m == CHOOSE x \in S : \A y \in S \ {x} : RowLess(t, x, y)
         IN <<m>> \o SortedRows(t, S \ {m})

Take(s, n) == IF Len(s) <= n THEN s ELSE SubSeq(s, 1, n)

\* WHERE col >= v  /  WHERE col > v
Compare(ge, x, v) == IF ge THEN x >= v ELSE x > v

\* SELECT .. FROM (SELECT .. WHERE col <op> :last_val ORDER BY col)
\* WHERE ROWNUM <= :batch_size
RangeQuery(t, ge, v, n) ==
    Take(SortedRows(t, {i \in DOMAIN t : Compare(ge, t[i], v)}), n)

\* SELECT MIN(col) FROM t   (NULL on an empty table)
MinQuery(t) == IF DOMAIN t = {} THEN None ELSE Some(Min({t[i] : i \in DOMAIN t}))

\* Python truthiness of an optional number: None and 0 are falsy.
Truthy(o) == o # None /\ o[1] # 0

\* ------------------------------------------------- _sequential_read
\* last_value = (min_result[0] - 1) if min_result and min_result[0] else 0
StartValue(t, isdate) ==
    IF isdate THEN [lit |-> TRUE, v |-> DateFloor]
    ELSE [lit |-> FALSE,
          v |-> IF Truthy(MinQuery(t)) THEN MinQuery(t)[1] - 1 ELSE 0]

\* initial_value = last_value; is_first_sync = (last_value == initial_value)
IsFirstSync(lv, initial_value) == lv = initial_value

\* the comparison always strict, whatever is_first_sync says
OperatorStrict(first) == FALSE

\* operator = ">=" if is_first_sync else ">"
OperatorGE(first) == first

SeqInit ==
    /\ LoadIdle
    /\ VerifyIdle
    /\ PlanIdle
    /\ AuxIdle
    /\ table \in UNION {[1..n -> Keys] : n \in 0..MaxRows}
    /\ batch_size \in 1..MaxBatch
    /\ incremental_column \in BOOLEAN
    /\ is_date_type \in BOOLEAN
    /\ resource_state = None
    /\ sq_pc = "idle"
    /\ last_value = [lit |-> FALSE, v |-> 0]
    /\ is_first_sync = FALSE
    /\ batch_data = <<>>
    /\ yield_pos = 1
    /\ run_rows = {}
    /\ emitted = {}
    /\ run_start_state = None
    /\ runs = 0
    /\ added = FALSE
    /\ added_between = FALSE
    /\ ParIdle
    /\ OrchIdle

\* oracle_table_resource reads the state and enters _sequential_read, which
\* runs up to the top of its while loop.
StartRun ==
    /\ sq_pc \in {"idle", "done"}
    /\ runs < MaxRuns
    /\ LET stored == IF incremental_column THEN resource_state ELSE None
           lv == IF stored = None THEN StartValue(table, is_date_type)
                 ELSE [lit |-> FALSE, v |-> stored[1]]
           initial_value == lv
       IN /\ last_value' = lv
          /\ is_first_sync' = IsFirstSync(lv, initial_value)
          /\ run_start_state' = stored
    /\ sq_pc' = "loop"
    /\ runs' = runs + 1
    /\ run_rows' = {}
    /\ batch_data' = <<>>
    /\ yield_pos' = 1
    /\ added' = FALSE
    /\ added_between' = added
    /\ UNCHANGED <<aux_vars, par_vars, orch_vars, load_vars, verify_vars, plan_vars, table, batch_size, incremental_column, is_date_type,
                   resource_state, emitted>>

\* One pass of the loop body up to the first yield of the batch: the range
\* query, the empty-batch break, last_value = rows[-1][range_col_idx] and
\* the resource-state write that precedes "yield from batch_data".
FetchBatch ==
    /\ sq_pc = "loop"
    /\ LET rows == RangeQuery(table, OperatorGE(is_first_sync),
                              last_value.v, batch_size)
       IN IF rows = <<>>
          THEN /\ sq_pc' = "done"
               /\ UNCHANGED <<last_value, resource_state, batch_data, yield_pos>>
          ELSE /\ last_value' = [lit |-> FALSE, v |-> table[rows[Len(rows)]]]
               /\ resource_state' = IF incremental_column
                                    THEN Some(table[rows[Len(rows)]])
                                    ELSE resource_state
               /\ batch_data' = rows
               /\ yield_pos' = 1
               /\ sq_pc' = "yield"
    /\ UNCHANGED <<aux_vars, par_vars, orch_vars, load_vars, verify_vars, plan_vars, table, batch_size, incremental_column, is_date_type,
                   is_first_sync, run_rows, emitted, run_start_state, runs,
                   added, added_between>>

\* yield from batch_data, one row per step; after the last row of the batch
\* the generator checks len(rows) < batch_size.
YieldRow ==
    /\ sq_pc = "yield"
    /\ run_rows' = run_rows \cup {batch_data[yield_pos]}
    /\ emitted' = emitted \cup {batch_data[yield_pos]}
    /\ IF yield_pos < Len(batch_data)
       THEN /\ yield_pos' = yield_pos + 1
            /\ sq_pc' = "yield"
       ELSE /\ yield_pos' = yield_pos
            /\ sq_pc' = IF Len(batch_data) < batch_size THEN "done" ELSE "loop"
    /\ UNCHANGED <<aux_vars, par_vars, orch_vars, load_vars, verify_vars, plan_vars, table, batch_size, incremental_column, is_date_type,
                   resource_state, last_value, is_first_sync, batch_data,
                   run_start_state, runs, added, added_between>>

\* the query raises (ORA- error): the except clause re-raises and the
\* generator ends; nothing is modelled after a failed run.
QueryError ==
    /\ sq_pc = "loop"
    /\ sq_pc' = "failed"
    /\ UNCHANGED <<aux_vars, par_vars, orch_vars, load_vars, verify_vars, plan_vars, table, batch_size, incremental_column, is_date_type,
                   resource_state, last_value, is_first_sync, batch_data,
                   yield_pos, run_rows, emitted, run_start_state, runs, added,
                   added_between>>

\* the source application inserts a row between two runs.
InsertRow ==
    /\ sq_pc = "done"
    /\ Len(table) < MaxRows
    /\ \E k \in Keys : table' = Append(table, k)
    /\ added' = TRUE
    /\ UNCHANGED <<aux_vars, par_vars, orch_vars, load_vars, verify_vars, plan_vars, batch_size, incremental_column, is_date_type,
                   resource_state, sq_pc, last_value, is_first_sync,
                   batch_data, yield_pos, run_rows, emitted, run_start_state,
                   runs, added_between>>

SeqNext == StartRun \/ FetchBatch \/ YieldRow \/ QueryError \/ InsertRow

SpecSeq == SeqInit /\ [][SeqNext]_vars

\* The generator is driven by one consumer that keeps asking for rows: a
\* query that can be issued is issued and a fetched row is handed over.
SeqFairness == WF_vars(FetchBatch) /\ WF_vars(YieldRow)

SpecSeqLive == SeqInit /\ [][SeqNext]_vars /\ SeqFairness

\* the rows of the current batch that are still to be yielded
BatchRest == {batch_data[p] : p \in yield_pos..Len(batch_data)}

\* C27: the pagination loop of _sequential_read ends for every finite table
\* and every batch size from 1 up, duplicate range values included, and no
\* batch holds a row that an earlier batch of the run returned.
C27_PaginationTerminates ==
    /\ [](sq_pc = "yield" => BatchRest \cap run_rows = {})
    /\ (sq_pc = "loop") ~> (sq_pc \in {"done", "failed"})

\* ------------------------------------------- sequential reader: claims
Values(t) == {t[i] : i \in DOMAIN t}

\* C1: the stored watermark is advanced to a batch's last value only after
\* that batch's rows have been handed over: in every reachable state each
\* source row whose value is <= the stored watermark has been yielded.
C1_WatermarkAfterFlush ==
    resource_state # None =>
        \A i \in DOMAIN table : table[i] <= resource_state[1] => i \in emitted

\* C3: a run resumed from a stored watermark W never reads a row whose
\* incremental column equals W.
C3_ResumeExcludesWatermark ==
    run_start_state # None =>
        \A i \in run_rows : table[i] # run_start_state[1]

C5_SecondRunReadsNothing ==
    (/\ runs = 2
     /\ sq_pc = "done"
     /\ incremental_column
     /\ ~added_between)
    => (run_rows = {} /\ resource_state = run_start_state)

\* =================================================== OracleParallelReader
MaxPk == 4
MaxWorkers == 2
MaxTimeouts == 1

\* the sequential reader is not running
SeqIdle ==
    /\ batch_size = 1
    /\ incremental_column = FALSE
    /\ is_date_type = FALSE
    /\ resource_state = None
    /\ sq_pc = "off"
    /\ last_value = [lit |-> FALSE, v |-> 0]
    /\ is_first_sync = FALSE
    /\ batch_data = <<>>
    /\ yield_pos = 1
    /\ run_rows = {}
    /\ emitted = {}
    /\ run_start_state = None
    /\ runs = 0
    /\ added = FALSE
    /\ added_between = FALSE

RECURSIVE SortedSeq(_)
SortedSeq(S) == IF S = {} THEN <<>> ELSE <<Min(S)>> \o SortedSeq(S \ {Min(S)})

AllRows(t) == SortedRows(t, DOMAIN t)

\* get_id_range: (min_id, max_id, count) from
\*   SELECT :last_val, MAX(pk), COUNT(*) .. WHERE pk > :last_val   (last_value truthy)
\*   SELECT MIN(pk), MAX(pk), COUNT(*)                              (otherwise)
IdRangeRaw(t, lv) ==
    IF Truthy(lv)
    THEN LET S == {t[i] : i \in {j \in DOMAIN t : t[j] > lv[1]}}
         IN <<lv, IF S = {} THEN None ELSE Some(Max(S)), Cardinality(S)>>
    ELSE LET S == Values(t)
         IN <<IF S = {} THEN None ELSE Some(Min(S)),
              IF S = {} THEN None ELSE Some(Max(S)), Len(t)>>

\*   min_id = (result[0] - 1) if result[0] else 0
\*   max_id = result[1] or 0 ; count = result[2] or 0
GetIdRange(t, lv) ==
    LET r == IdRangeRaw(t, lv)
    IN <<IF Truthy(r[1]) THEN r[1][1] - 1 ELSE 0,
         IF Truthy(r[2]) THEN r[2][1] ELSE 0,
         r[3]>>

\* the rows ROW_NUMBER() OVER (ORDER BY pk) keeps:
\*   rn = 1 OR MOD(rn, rows_per_chunk) = 0 OR rn = total_count
BoundaryIds(t, rows_per_chunk, total_count) ==
    LET keep(rn) == rn = 1 \/ rn % rows_per_chunk = 0 \/ rn = total_count
        rns == SelectSeq([rn \in 1..Len(t) |-> rn], keep)
    IN [i \in 1..Len(rns) |-> t[AllRows(t)[rns[i]]]]

\* start = boundary_ids[i] - 1 ; end = boundary_ids[i + 1]
ChunkOf(boundary_ids, i) ==
    <<i, boundary_ids[i + 1] - 1, boundary_ids[i + 2]>>

Min2(a, b) == IF a < b THEN a ELSE b

CalculateChunks(t, workers, min_id, max_id, total_count) ==
    LET single == << <<0, min_id, max_id + 1>> >>
        num_chunks == Min2(workers * 2, total_count)
    IN IF total_count = 0 THEN single
       ELSE IF num_chunks <= 1 THEN single
       ELSE LET rows_per_chunk == total_count \div num_chunks
                boundary_ids == BoundaryIds(t, rows_per_chunk, total_count)
            IN IF Len(boundary_ids) < 2 THEN single
               ELSE [i \in 1..(Len(boundary_ids) - 1) |->
                        ChunkOf(boundary_ids, i - 1)]

\* read_chunk: WHERE pk > :start_id AND pk <= :end_id ORDER BY pk
InChunk(chunk, key) == key > chunk[2] /\ key <= chunk[3]
ReadChunk(t, chunk) == SortedRows(t, {i \in DOMAIN t : InChunk(chunk, t[i])})

ChunkIds == {chunks[i][1] : i \in DOMAIN chunks}
ChunkById(c) == chunks[c + 1]

\* a reorder step that releases whatever has arrived
DueOnArrival(cc, n) == DOMAIN cc

\* while next_chunk_to_yield in completed_chunks
DueChunks(cc, n) == {c \in DOMAIN cc : c = n}

\* a callback that swallows the failure and enqueues nothing
ReaderCallbackDropsFailure(q, chunk_id, ok, data) ==
    IF ok THEN Append(q, <<chunk_id, data>>) ELSE q

\* reader_callback: result_queue.put((chunk_id, data)), or (chunk_id, [])
\* when future.result() raises
ReaderCallback(q, chunk_id, ok, data) ==
    Append(q, <<chunk_id, IF ok THEN data ELSE <<>> >>)

\* a main loop that leaves as soon as every result was received
AfterStepNoDrain(cc, n, received, total) ==
    IF received < total THEN "wait" ELSE "done"

\* where the main loop stands after a receive or a release
AfterStep(cc, n, received, total) ==
    IF DueChunks(cc, n) # {} THEN "release"
    ELSE IF received < total THEN "wait" ELSE "done"

ParInit ==
    /\ LoadIdle
    /\ VerifyIdle
    /\ PlanIdle
    /\ AuxIdle
    /\ SeqIdle
    /\ OrchIdle
    /\ \E S \in SUBSET (0..MaxPk) : table = SortedSeq(S)
    /\ num_workers \in 1..MaxWorkers
    /\ pr_last_value \in {None} \cup {Some(k) : k \in 0..MaxPk}
    /\ pr_pc = "start"
    /\ chunks = <<>>
    /\ worker = <<>>
    /\ attempts = <<>>
    /\ failed = {}
    /\ result_queue = <<>>
    /\ completed_chunks = <<>>
    /\ next_chunk_to_yield = 0
    /\ chunks_received = 0
    /\ out = <<>>
    /\ timeouts = 0
    /\ pr_state = pr_last_value

\* parallel_read up to the main loop: get_id_range, the early return on an
\* empty range, calculate_chunks and the submission of every chunk.
PlanAndSubmit ==
    /\ pr_pc = "start"
    /\ LET r == GetIdRange(table, pr_last_value)
       IN IF r[3] = 0
          THEN /\ pr_pc' = "done"
               /\ UNCHANGED <<chunks, worker, attempts>>
          ELSE LET cs == CalculateChunks(table, num_workers, r[1], r[2], r[3])
               IN /\ chunks' = cs
                  /\ worker' = [c \in {cs[i][1] : i \in DOMAIN cs} |-> "queued"]
                  /\ attempts' = [c \in {cs[i][1] : i \in DOMAIN cs} |-> 0]
                  /\ pr_pc' = "wait"
    /\ UNCHANGED <<aux_vars, table, seq_vars, orch_vars, load_vars, verify_vars, plan_vars, pr_state, timeouts, num_workers, pr_last_value, failed,
                   result_queue, completed_chunks, next_chunk_to_yield,
                   chunks_received, out>>

\* a pool thread takes the oldest queued chunk (at most num_workers run)
WorkerStart(c) ==
    /\ pr_pc \in {"wait", "release"}
    /\ worker[c] = "queued"
    /\ \A d \in ChunkIds : d < c => worker[d] # "queued"
    /\ Cardinality({d \in ChunkIds : worker[d] = "running"}) < num_workers
    /\ worker' = [worker EXCEPT ![c] = "running"]
    /\ attempts' = [attempts EXCEPT ![c] = @ + 1]
    /\ UNCHANGED <<aux_vars, table, seq_vars, orch_vars, load_vars, verify_vars, plan_vars, pr_state, timeouts, num_workers, pr_last_value, pr_pc, chunks,
                   failed, result_queue, completed_chunks,
                   next_chunk_to_yield, chunks_received, out>>

\* read_chunk returns its rows and the done-callback enqueues them
WorkerReturn(c) ==
    /\ pr_pc \in {"wait", "release"}
    /\ worker[c] = "running"
    /\ worker' = [worker EXCEPT ![c] = "finished"]
    /\ result_queue' = ReaderCallback(result_queue, c, TRUE,
                                      ReadChunk(table, ChunkById(c)))
    /\ UNCHANGED <<aux_vars, table, seq_vars, orch_vars, load_vars, verify_vars, plan_vars, pr_state, timeouts, num_workers, pr_last_value, pr_pc, chunks,
                   attempts, failed, completed_chunks, next_chunk_to_yield,
                   chunks_received, out>>

\* read_chunk raises and the done-callback enqueues an empty result
WorkerRaise(c) ==
    /\ pr_pc \in {"wait", "release"}
    /\ worker[c] = "running"
    /\ worker' = [worker EXCEPT ![c] = "finished"]
    /\ failed' = failed \cup {c}
    /\ result_queue' = ReaderCallback(result_queue, c, FALSE, <<>>)
    /\ UNCHANGED <<aux_vars, table, seq_vars, orch_vars, load_vars, verify_vars, plan_vars, pr_state, timeouts, num_workers, pr_last_value, pr_pc, chunks,
                   attempts, completed_chunks, next_chunk_to_yield,
                   chunks_received, out>>

\* chunk_id, data = result_queue.get(); completed_chunks[chunk_id] = data
Receive ==
    /\ pr_pc = "wait"
    /\ result_queue # <<>>
    /\ LET cc == (Head(result_queue)[1] :> Head(result_queue)[2]) @@ completed_chunks
       IN /\ completed_chunks' = cc
          /\ pr_pc' = AfterStep(cc, next_chunk_to_yield, chunks_received + 1,
                                Len(chunks))
    /\ result_queue' = Tail(result_queue)
    /\ chunks_received' = chunks_received + 1
    /\ UNCHANGED <<aux_vars, table, seq_vars, orch_vars, load_vars, verify_vars, plan_vars, pr_state, timeouts, num_workers, pr_last_value, chunks, worker,
                   attempts, failed, next_chunk_to_yield, out>>

\* one pass of the inner while: pop the due chunk, yield its rows in order
YieldChunk ==
    /\ pr_pc = "release"
    /\ \E c \in DueChunks(completed_chunks, next_chunk_to_yield) :
         LET cc == [d \in DOMAIN completed_chunks \ {c} |-> completed_chunks[d]]
             data == completed_chunks[c]
         IN /\ out' = out \o [i \in 1..Len(data) |-> <<c, data[i]>>]
            /\ completed_chunks' = cc
            /\ next_chunk_to_yield' = next_chunk_to_yield + 1
            /\ pr_pc' = AfterStep(cc, next_chunk_to_yield + 1, chunks_received,
                                  Len(chunks))
    /\ UNCHANGED <<aux_vars, table, seq_vars, orch_vars, load_vars, verify_vars, plan_vars, pr_state, timeouts, num_workers, pr_last_value, chunks, worker,
                   attempts, failed, result_queue, chunks_received>>

\* except Empty: the get timed out with nothing in the queue; the handler
\* prints the elapsed time and the loop condition is tested again
WaitTimeout ==
    /\ pr_pc = "wait"
    /\ result_queue = <<>>
    /\ timeouts < MaxTimeouts
    /\ timeouts' = timeouts + 1
    /\ UNCHANGED <<aux_vars, table, seq_vars, orch_vars, load_vars, verify_vars, plan_vars, pr_state, num_workers, pr_last_value,
                   pr_pc, chunks, worker, attempts, failed, result_queue,
                   completed_chunks, next_chunk_to_yield, chunks_received, out>>

\* max_value of _parallel_read after the loop over parallel_read: the
\* largest of last_value and the incremental values of the emitted rows
MaxValue(lv, rows) ==
    LET S == {table[rows[i]] : i \in DOMAIN rows}
            \cup (IF lv = None THEN {} ELSE {lv[1]})
    IN IF S = {} THEN None ELSE Some(Max(S))

\* _parallel_read after the stream has ended:
\*   if incremental_column and max_value is not None:
\*       dlt.current.resource_state()['last_value'] = max_value
SaveLastValue ==
    /\ pr_pc = "done"
    /\ LET max_value == MaxValue(pr_last_value, [i \in DOMAIN out |-> out[i][2]])
       IN pr_state' = IF max_value # None THEN max_value ELSE pr_state
    /\ pr_pc' = "saved"
    /\ UNCHANGED <<aux_vars, table, seq_vars, orch_vars, load_vars, verify_vars,
                   plan_vars, num_workers, pr_last_value, chunks, worker,
                   attempts, failed, result_queue, completed_chunks,
                   next_chunk_to_yield, chunks_received, out, timeouts>>

ParNext ==
    \/ PlanAndSubmit
    \/ SaveLastValue
    \/ \E c \in ChunkIds : WorkerStart(c)
    \/ \E c \in ChunkIds : WorkerReturn(c)
    \/ \E c \in ChunkIds : WorkerRaise(c)
    \/ Receive
    \/ WaitTimeout
    \/ YieldChunk

SpecPar == ParInit /\ [][ParNext]_vars

\* a step of a pool thread or of the main thread other than a timed-out
\* wait
ParProgress ==
    \/ PlanAndSubmit
    \/ \E c \in ChunkIds : WorkerStart(c) \/ WorkerReturn(c) \/ WorkerRaise(c)
    \/ Receive
    \/ YieldChunk
    \/ SaveLastValue

\* The threads of the process keep running: a submitted chunk is taken by
\* a pool thread, a running read_chunk returns or raises, and the main
\* thread goes on with its loop.
ParFairness == WF_vars(ParProgress)

\* the largest primary key of the tables read under the fair specification
MaxLivePk == 3

ParLiveInit ==
    /\ ParInit
    /\ \A i \in DOMAIN table : table[i] <= MaxLivePk
    /\ pr_last_value # None => pr_last_value[1] <= MaxLivePk

SpecParLive == ParLiveInit /\ [][ParNext]_vars /\ ParFairness

\* ---------------------------------------------- parallel reader: claims
\* the key values between the smallest and the largest key the run has to
\* read: every row on a first read, the rows above last_value on a resumed one
DiscoveredRange ==
    LET S == {table[i] : i \in {j \in DOMAIN table :
                  Truthy(pr_last_value) => table[j] > pr_last_value[1]}}
    IN IF S = {} THEN {} ELSE Min(S)..Max(S)

OutRows == [i \in 1..Len(out) |-> out[i][2]]

\* the rows emitted for chunk c, in order
OutOf(c) ==
    LET tagged(e) == e[1] = c
        f == SelectSeq(out, tagged)
    IN [i \in 1..Len(f) |-> f[i][2]]

\* what chunk c hands to the queue: its rows, or nothing when it raised
Delivered(c) == IF c \in failed THEN <<>> ELSE ReadChunk(table, ChunkById(c))

Holders(c) ==
    Cardinality({i \in DOMAIN result_queue : result_queue[i][1] = c})
    + (IF c \in DOMAIN completed_chunks THEN 1 ELSE 0)
    + (IF c < next_chunk_to_yield THEN 1 ELSE 0)

\* the rows this read is to deliver: all of them on a first read, those
\* above the stored last_value on a resumed one
RowsDue ==
    {i \in DOMAIN table : pr_last_value # None => table[i] > pr_last_value[1]}

\* C25: once _parallel_read has saved last_value, every source row whose
\* incremental value is at most the saved value has been emitted, also
\* when chunk reads failed and were replaced by empty results.
C25_SavedWatermarkCoversEmitted ==
    (pr_pc = "saved" /\ pr_state # None) =>
        \A i \in RowsDue :
            table[i] <= pr_state[1] => \E p \in DOMAIN out : out[p][2] = i

\* C26: a read resumed from last_value W emits only rows whose key is
\* above W, and its chunks lie within (W, max key].
C26_ResumedReadStaysAboveWatermark ==
    pr_last_value # None =>
        LET W == pr_last_value[1] IN
        /\ \A p \in DOMAIN out : table[out[p][2]] > W
        /\ \A c \in DOMAIN chunks :
              /\ chunks[c][2] >= W
              /\ chunks[c][3] <= Max(Values(table))

\* C28: when every chunk worker completes or fails, parallel_read ends,
\* and at its end one result per chunk was received, every chunk was
\* released once, the buffer and the queue are empty and
\* next_chunk_to_yield is the number of chunks.
C28_ParallelReadTerminates ==
    /\ <>(pr_pc = "done")
    /\ [](pr_pc \in {"done", "saved"} =>
            /\ chunks_received = Len(chunks)
            /\ next_chunk_to_yield = Len(chunks)
            /\ completed_chunks = <<>>
            /\ result_queue = <<>>
            /\ \A c \in ChunkIds : /\ Holders(c) = 1
                                   /\ worker[c] = "finished"
                                   /\ attempts[c] = 1)

\* C28 witness: a read of several chunks has ended after a failed chunk and
\* a timed-out wait.
C28_Witness ==
    /\ pr_pc = "done"
    /\ Len(chunks) >= 2
    /\ failed # {}
    /\ timeouts > 0
    /\ out # <<>>

\* C6: the planned chunks do not overlap: no key value of the discovered
\* range satisfies "key > start AND key <= end" for two chunks.
C6_ChunksDisjoint ==
    \A i, j \in DOMAIN chunks : i < j =>
        \A k \in DiscoveredRange :
            ~(InChunk(chunks[i], k) /\ InChunk(chunks[j], k))

\* C7: the planned chunks cover the discovered range: every key value in it
\* is assignable to at least one chunk.
C7_ChunksCover ==
    chunks # <<>> =>
        \A k \in DiscoveredRange : \E i \in DOMAIN chunks : InChunk(chunks[i], k)

\* C8: rows are released strictly in chunk-index order: the stream's chunk
\* ids never decrease, every chunk below next_chunk_to_yield has all its
\* rows in the stream, nothing of a later chunk is in it, and the buffered
\* chunks are exactly chunks that are not yet released.
C8_ReleasedInChunkOrder ==
    /\ \A p, q \in DOMAIN out : p < q => out[p][1] <= out[q][1]
    /\ \A p \in DOMAIN out : out[p][1] < next_chunk_to_yield
    /\ \A c \in ChunkIds : c < next_chunk_to_yield => OutOf(c) = Delivered(c)
    /\ \A c \in DOMAIN completed_chunks : c >= next_chunk_to_yield

\* C8 witness: a later chunk arrived first and waits in the buffer, while
\* rows of an earlier chunk are already in the stream.
C8_Witness ==
    /\ out # <<>>
    /\ \E c \in DOMAIN completed_chunks : c > next_chunk_to_yield
    /\ pr_pc = "wait"

\* C9: with no worker failure, the finished stream of a full read is the
\* single-threaded scan of the table ordered by the range column: every
\* source row once, in that order.
C9_StreamEqualsOrderedScan ==
    (pr_pc = "done" /\ failed = {} /\ pr_last_value = None)
    => OutRows = AllRows(table)

\* C10: a chunk whose worker raised is run once, never again; every finished
\* chunk has exactly one result (in the queue, buffered or released), the
\* failed ones an empty one; and the finished stream holds the rows of every
\* other chunk, in chunk order, with every chunk released.
C10_FailureIsEmptyResult ==
    /\ \A c \in ChunkIds : attempts[c] <= 1
    /\ \A c \in ChunkIds :
         Holders(c) = (IF worker[c] = "finished" THEN 1 ELSE 0)
    /\ \A i \in DOMAIN result_queue :
         result_queue[i][2] = Delivered(result_queue[i][1])
    /\ \A c \in DOMAIN completed_chunks : completed_chunks[c] = Delivered(c)
    /\ (pr_pc = "done" /\ chunks # <<>>) =>
         /\ next_chunk_to_yield = Len(chunks)
         /\ \A c \in ChunkIds : OutOf(c) = Delivered(c)
         /\ \A p, q \in DOMAIN out : p < q => out[p][1] <= out[q][1]

\* C10 witness: the read has ended, a chunk failed, and a later chunk's rows
\* are in the stream.
C10_Witness ==
    /\ pr_pc = "done"
    /\ \E c \in failed : \E d \in ChunkIds \ failed :
         c < d /\ OutOf(d) # <<>> /\ OutOf(c) = <<>>

\* C15: every plan of a first read (the single-chunk plans included) has
\* strictly increasing boundaries, its first chunk starts at min - 1 and its
\* last chunk ends at max, min and max being the smallest and the largest
\* key of the table.
C15_PlanBoundaries ==
    (chunks # <<>> /\ pr_last_value = None) =>
        /\ \A i \in DOMAIN chunks : chunks[i][2] < chunks[i][3]
        /\ \A i, j \in DOMAIN chunks : i < j => chunks[i][3] < chunks[j][3]
        /\ chunks[1][2] = Min(Values(table)) - 1
        /\ chunks[Len(chunks)][3] = Max(Values(table))

\* C11: when the wait for a chunk times out, the wait is abandoned and the
\* chunk is treated as failed: every step in which result_queue.get raises
\* Empty marks a chunk that has not been received as failed and counts it as
\* received, so that the loop does not wait for it again.
C11_TimeoutFailsTheChunk ==
    [][timeouts' # timeouts =>
          /\ \E c \in ChunkIds : c \in failed' \ failed
          /\ chunks_received' = chunks_received + 1]_vars

\* ======================================================= SmartSyncAgent
NumTables == 2
MaxCount == 2
MaxWm == 2

\* verify_row_count's tolerance argument (its default)
Tolerance == 0

Tables == 1..NumTables
Abs(x) == IF x < 0 THEN -x ELSE x

\* a comparison that lets a difference of one row pass
WithinOne(difference, source, target) == difference <= 1

\* error_rate <= tolerance, where
\*   error_rate = difference / source_count            if source_count > 0
\*              = 0 if target_count == 0 else 1.0      otherwise
WithinTolerance(difference, source, target) ==
    IF source > 0 THEN difference <= Tolerance * source
    ELSE (IF target = 0 THEN 0 ELSE 1) <= Tolerance

\* the VerifyResult dataclass
VerifyResult(status, source, target, difference) ==
    [status |-> status, source_count |-> source, target_count |-> target,
     difference |-> difference]

\* no verification yet
NoResult == VerifyResult("none", 0, 0, 0)

\* a count that reads an unreachable or missing target as an empty table
GetDuckdbCountZero(reachable, count) ==
    IF reachable /\ count >= 0 THEN count ELSE 0

\* get_duckdb_count: the table's rows, -1 when the query raises (the
\* database cannot be opened or the table does not exist)
GetDuckdbCount(reachable, count) ==
    IF reachable /\ count >= 0 THEN count ELSE -1

\* verify_row_count: the result for the two counts; reachable is FALSE when
\* counting the source raises
VerifyRowCount(reachable, source, target) ==
    IF ~reachable THEN VerifyResult("error", 0, 0, 0)
    ELSE IF target < 0 THEN VerifyResult("error", source, 0, source)
    ELSE LET difference == Abs(source - target)
         IN VerifyResult(IF WithinTolerance(difference, source, target)
                         THEN "success" ELSE "mismatch",
                         source, target, difference)

VerifyInit ==
    /\ PlanIdle
    /\ AuxIdle
    /\ SeqIdle
    /\ ParIdle
    /\ OrchIdle
    /\ LoadIdle
    /\ table = <<>>
    /\ vf_source \in 0..MaxVerifyCount
    /\ vf_target \in -1..MaxVerifyCount
    /\ vf_src_ok \in BOOLEAN
    /\ vf_dst_ok \in BOOLEAN
    /\ vf_result = NoResult
    /\ vf_pc = "call"

\* verify_row_count(table_name, schema) with the default tolerance
VerifyCall ==
    /\ vf_pc = "call"
    /\ vf_result' = VerifyRowCount(vf_src_ok, vf_source,
                                   GetDuckdbCount(vf_dst_ok, vf_target))
    /\ vf_pc' = "returned"
    /\ UNCHANGED <<aux_vars, table, seq_vars, par_vars, orch_vars, load_vars, plan_vars,
                   vf_source, vf_target, vf_src_ok, vf_dst_ok>>

VerifyNext == VerifyCall

SpecVerify == VerifyInit /\ [][VerifyNext]_vars

\* if incremental_column and max_value is not None: _update_dlt_state(...)
UpdateDltState(state, t, has_inc, max_value) ==
    IF has_inc /\ max_value # None THEN [state EXCEPT ![t] = max_value] ELSE state

OrchInit ==
    /\ LoadIdle
    /\ VerifyIdle
    /\ PlanIdle
    /\ AuxIdle
    /\ SeqIdle
    /\ ParIdle
    /\ table = <<>>
    /\ strategies \in [Tables -> [incremental_column : BOOLEAN]]
    /\ source_count \in [Tables -> 0..MaxCount]
    /\ target_count = [t \in Tables |-> -1]
    /\ state_file = [t \in Tables |-> None]
    /\ prev_state = state_file
    /\ sync_results = [t \in Tables |-> "none"]
    /\ verify_results = [t \in Tables |-> NoResult]
    /\ agent_pc = "execute"
    /\ agent_idx = 1
    /\ run_status = "none"
    /\ exit_code = None

\* an except clause that gives the run up
AbortRun(pc, idx) == "done"

\* except Exception: the error is stored under the table's name and the for
\* loop goes on with the next strategy
AfterRaise(pc, idx) == IF idx < NumTables THEN pc ELSE "verify"

AfterTable(pc, idx) == IF idx < NumTables THEN pc
                       ELSE IF pc = "execute" THEN "verify" ELSE "done"
NextIdx(idx) == IF idx < NumTables THEN idx + 1 ELSE 1

\* execute_plan, one strategy: the load (run_fast_sync or run_sync) returns
\* having written rows rows whose largest incremental value is max_value; the
\* watermark is stored before the function returns.
ExecuteTable ==
    /\ agent_pc = "execute"
    /\ LET t == agent_idx
       IN \E rows \in {r \in 0..MaxCount : source_count[t] = 0 => r = 0},
             m \in 1..MaxWm :
            LET max_value == IF rows > 0 /\ strategies[t].incremental_column
                             THEN Some(m) ELSE None
            IN /\ target_count' = [target_count EXCEPT
                                      ![t] = IF rows = 0 THEN -1 ELSE rows]
               /\ state_file' = UpdateDltState(state_file, t,
                                    strategies[t].incremental_column, max_value)
               /\ sync_results' = [sync_results EXCEPT ![t] = "success"]
    /\ agent_pc' = AfterTable(agent_pc, agent_idx)
    /\ agent_idx' = NextIdx(agent_idx)
    /\ UNCHANGED <<aux_vars, table, seq_vars, par_vars, load_vars, verify_vars, plan_vars, strategies, source_count, run_status, exit_code,
                   prev_state, verify_results>>

\* execute_plan, one strategy: the load raises (after the destination table
\* was dropped) and the except clause records the error.
ExecuteTableRaises ==
    /\ agent_pc = "execute"
    /\ target_count' = [target_count EXCEPT ![agent_idx] = -1]
    /\ sync_results' = [sync_results EXCEPT ![agent_idx] = "error"]
    /\ agent_pc' = AfterRaise(agent_pc, agent_idx)
    /\ agent_idx' = NextIdx(agent_idx)
    /\ UNCHANGED <<aux_vars, table, seq_vars, par_vars, load_vars, verify_vars, plan_vars, strategies, source_count, run_status, exit_code,
                   state_file, prev_state, verify_results>>

\* verify_sync, one table of verify_multiple_tables
VerifyTable ==
    /\ agent_pc = "verify"
    /\ \E src_ok, dst_ok \in BOOLEAN :
         verify_results' = [verify_results EXCEPT ![agent_idx] =
             VerifyRowCount(src_ok, source_count[agent_idx],
                            GetDuckdbCount(dst_ok, target_count[agent_idx]))]
    /\ agent_pc' = AfterTable(agent_pc, agent_idx)
    /\ agent_idx' = NextIdx(agent_idx)
    /\ UNCHANGED <<aux_vars, table, seq_vars, par_vars, load_vars, verify_vars, plan_vars, strategies, source_count, run_status, exit_code,
                   target_count, state_file, prev_state, sync_results>>

\* SyncVerifier.get_summary: all_passed
AllPassed(results) ==
    /\ Cardinality({t \in Tables : results[t].status = "mismatch"}) = 0
    /\ Cardinality({t \in Tables : results[t].status = "error"}) = 0

\* SmartSyncAgent.run, step 7: the status of the returned dict
RunReturns ==
    /\ agent_pc = "done"
    /\ run_status' = IF AllPassed(verify_results) THEN "success" ELSE "partial"
    /\ agent_pc' = "returned"
    /\ UNCHANGED <<aux_vars, table, seq_vars, par_vars, load_vars, verify_vars,
                   plan_vars, strategies, source_count, target_count,
                   state_file, prev_state, sync_results, verify_results,
                   agent_idx, exit_code>>

\* the exit status after __main__ has printed its line for the status: no
\* branch calls sys.exit, the interpreter ends normally
ExitStatus(status) == 0

\* __main__ with --smart: the result of smart_sync is printed
MainExit ==
    /\ agent_pc = "returned"
    /\ exit_code' = Some(ExitStatus(run_status))
    /\ agent_pc' = "exited"
    /\ UNCHANGED <<aux_vars, table, seq_vars, par_vars, load_vars, verify_vars,
                   plan_vars, strategies, source_count, target_count,
                   state_file, prev_state, sync_results, verify_results,
                   agent_idx, run_status>>

OrchNext ==
    \/ ExecuteTable
    \/ ExecuteTableRaises
    \/ VerifyTable
    \/ RunReturns
    \/ MainExit

SpecOrch == OrchInit /\ [][OrchNext]_vars

\* C24: the process ends with a non-zero exit status when the verification
\* of any table has status error, and with exit status zero when the worst
\* status is mismatch.
C24_ExitStatusFollowsVerification ==
    exit_code # None =>
        LET statuses == {verify_results[t].status : t \in Tables} IN
        /\ "error" \in statuses => exit_code # Some(0)
        /\ ("error" \notin statuses /\ "mismatch" \in statuses)
               => exit_code = Some(0)


\* ------------------------------------------------- orchestrator: claims
\* C2: the watermark of a table is committed only when its load and its
\* verification both succeeded: a table whose verification ended mismatch
\* or error still has the watermark it had before the run.
C2_MismatchLeavesWatermark ==
    \A t \in Tables :
        verify_results[t].status \in {"mismatch", "error"} => state_file[t] = prev_state[t]

\* the tables verify_sync has verified
Verified == {t \in Tables : verify_results[t].status # "none"}

\* C18: a table whose load raises gets status error and the run goes on:
\* while execute_plan runs, exactly the tables before the current one have
\* a status; once it has ended every table has one; and at the end of the
\* run every table has been verified as well.
C18_FailureDoesNotAbortSiblings ==
    /\ agent_pc = "execute" =>
          \A t \in Tables : (sync_results[t] # "none") <=> (t < agent_idx)
    /\ agent_pc \in {"verify", "done"} =>
          \A t \in Tables : sync_results[t] \in {"success", "error"}
    /\ agent_pc = "done" => Verified = Tables

\* C18 witness: the run has ended, the first table's load raised and the
\* last table was loaded.
C18_Witness ==
    /\ agent_pc = "done"
    /\ sync_results[1] = "error"
    /\ sync_results[NumTables] = "success"
    /\ target_count[NumTables] > 0

\* ========================================== SyncVerifier.verify_row_count
\* C16: with both sides reachable, the target table present and tolerance
\* zero, the result is success exactly when the two counts are equal and
\* mismatch exactly when they differ, and its difference is |source - target|.
C16_StatusFollowsCounts ==
    (vf_pc = "returned" /\ vf_src_ok /\ vf_dst_ok /\ vf_target >= 0) =>
        /\ vf_result.status = "success" <=> vf_source = vf_target
        /\ vf_result.status = "mismatch" <=> vf_source # vf_target
        /\ vf_result.difference = Abs(vf_source - vf_target)
        /\ vf_result.source_count = vf_source
        /\ vf_result.target_count = vf_target

\* C16 witness: the verifier returned mismatch for a source with more rows
\* than a non-empty target.
C16_Witness ==
    /\ vf_pc = "returned" /\ vf_src_ok /\ vf_dst_ok
    /\ vf_target > 0 /\ vf_source > vf_target
    /\ vf_result.status = "mismatch"
    /\ vf_result.difference = vf_source - vf_target

\* C17: verification always ends in a result, and the result is error
\* whenever the source is unreachable, the target is unreachable or the
\* target table does not exist.
C17_UnreachableIsError ==
    vf_pc = "returned" =>
        /\ vf_result.status \in {"success", "mismatch", "error"}
        /\ (~vf_src_ok \/ ~vf_dst_ok \/ vf_target < 0)
               => vf_result.status = "error"

\* C17 witness: a target holding as many rows as the source was verified
\* with the target database unreachable, and the result is error.
C17_Witness ==
    /\ vf_pc = "returned"
    /\ vf_src_ok /\ ~vf_dst_ok
    /\ vf_target = vf_source /\ vf_source > 0
    /\ vf_result.status = "error"

\* ============================== run_fast_sync, use_partition=True branch
\* temp_file = os.path.join(duckdb_dir, f"temp_partition_{idx}.duckdb"):
\* the name holds the partition's index and nothing of the table or the run
TempFile(l, idx) == idx

PartsOf(l) == {i \in Parts : i < nparts[l]}

RECURSIVE SumOver(_, _)
SumOver(f, S) ==
    IF S = {} THEN 0
    ELSE LET x == CHOOSE y \in S : TRUE IN f[x] + SumOver(f, S \ {x})

\* the dict _sync_partition_worker returns
WorkerResult(success, rows) ==
    Some([success |-> success, rows |-> rows, error |-> ~success])

\* total_rows = sum(r['rows'] for r in partition_results if r['success'])
TotalRows(results, ps) ==
    SumOver([i \in ps |-> results[i][1].rows],
            {i \in ps : results[i][1].success})

\* a merge that takes the temp file of every partition, failed ones included
AllTempFiles(results, ps) == ps

\* valid_temp_files: r['success'] and r['rows'] > 0
ValidTempFiles(results, ps) ==
    {i \in ps : results[i][1].success /\ results[i][1].rows > 0}

\* another worker has the file f open
HeldByOther(l, i, f) ==
    \E m \in Loads : \E j \in Parts :
        /\ <<m, j>> # <<l, i>>
        /\ pworker[m][j] = "open"
        /\ TempFile(m, j) = f

\* the rows the worker leaves in table "data" of its temp file: the first
\* written batch drops and recreates the table, nothing is written for 0 rows
WriteData(files, f, rows) ==
    IF rows > 0 /\ f \in DOMAIN files THEN [files EXCEPT ![f] = rows] ELSE files

LoadInit ==
    /\ VerifyIdle
    /\ PlanIdle
    /\ AuxIdle
    /\ SeqIdle
    /\ ParIdle
    /\ OrchIdle
    /\ table = <<>>
    /\ nparts \in [Loads -> 0..MaxParts]
    /\ ld_pc = [l \in Loads |-> "idle"]
    /\ pworker = [l \in Loads |-> [i \in Parts |-> "none"]]
    /\ presult = [l \in Loads |-> [i \in Parts |-> None]]
    /\ temp_files = <<>>
    /\ created = [l \in Loads |-> {}]
    /\ dest = [l \in Loads |-> -1]
    /\ ld_rows = [l \in Loads |-> 0]
    /\ merge_failed = [l \in Loads |-> FALSE]

\* DROP TABLE IF EXISTS, get_partitions, and the submission of one worker
\* per partition
StartLoad(l) ==
    /\ ld_pc[l] = "idle"
    /\ dest' = [dest EXCEPT ![l] = -1]
    /\ pworker' = [pworker EXCEPT ![l] =
                      [i \in Parts |-> IF i < nparts[l] THEN "queued" ELSE "none"]]
    /\ ld_pc' = [ld_pc EXCEPT ![l] = "wait"]
    /\ UNCHANGED <<aux_vars, table, seq_vars, par_vars, orch_vars, verify_vars, plan_vars, nparts, presult,
                   temp_files, created, ld_rows, merge_failed>>

\* a pool thread takes the oldest submitted partition: the worker's
\* create_engine and duckdb.connect(temp_duckdb_path), which creates the
\* file when it is missing
WorkerConnect(l, i) ==
    /\ ld_pc[l] = "wait"
    /\ pworker[l][i] = "queued"
    /\ \A j \in Parts : j < i => pworker[l][j] # "queued"
    /\ pworker' = [pworker EXCEPT ![l][i] = "open"]
    /\ temp_files' = IF TempFile(l, i) \in DOMAIN temp_files THEN temp_files
                     ELSE (TempFile(l, i) :> 0) @@ temp_files
    /\ created' = [created EXCEPT ![l] = @ \cup {TempFile(l, i)}]
    /\ UNCHANGED <<aux_vars, table, seq_vars, par_vars, orch_vars, verify_vars, plan_vars, nparts, ld_pc,
                   presult, dest, ld_rows, merge_failed>>

\* duckdb.connect raises because the file is locked by a connection of
\* another process; the call stands before the worker's try block
WorkerConnectRaises(l, i) ==
    /\ ld_pc[l] = "wait"
    /\ pworker[l][i] = "queued"
    /\ \A j \in Parts : j < i => pworker[l][j] # "queued"
    /\ HeldByOther(l, i, TempFile(l, i))
    /\ pworker' = [pworker EXCEPT ![l][i] = "raised"]
    /\ UNCHANGED <<aux_vars, table, seq_vars, par_vars, orch_vars, verify_vars, plan_vars, nparts, ld_pc,
                   presult, temp_files, created, dest, ld_rows, merge_failed>>

\* the partition is read to its end: rows are written and the worker
\* returns {'rows': row_count, 'success': True}
WorkerRead(l, i, rows) ==
    /\ pworker[l][i] = "open"
    /\ pworker' = [pworker EXCEPT ![l][i] = "closed"]
    /\ presult' = [presult EXCEPT ![l][i] = WorkerResult(TRUE, rows)]
    /\ temp_files' = WriteData(temp_files, TempFile(l, i), rows)
    /\ UNCHANGED <<aux_vars, table, seq_vars, par_vars, orch_vars, verify_vars, plan_vars, nparts, ld_pc,
                   created, dest, ld_rows, merge_failed>>

\* the read raises after `written` rows went to the temp file: the worker
\* returns {'rows': 0, 'success': False, 'error': str(e)}
WorkerReadRaises(l, i, written) ==
    /\ pworker[l][i] = "open"
    /\ pworker' = [pworker EXCEPT ![l][i] = "closed"]
    /\ presult' = [presult EXCEPT ![l][i] = WorkerResult(FALSE, 0)]
    /\ temp_files' = WriteData(temp_files, TempFile(l, i), written)
    /\ UNCHANGED <<aux_vars, table, seq_vars, par_vars, orch_vars, verify_vars, plan_vars, nparts, ld_pc,
                   created, dest, ld_rows, merge_failed>>

\* for future in futures: result = future.result(), and the pool's exit,
\* which waits for every worker; an exception of a worker leaves
\* run_fast_sync here
JoinWorkers(l) ==
    /\ ld_pc[l] = "wait"
    /\ \A i \in PartsOf(l) : pworker[l][i] \in {"closed", "raised"}
    /\ ld_pc' = [ld_pc EXCEPT ![l] =
                    IF \E i \in PartsOf(l) : pworker[l][i] = "raised"
                    THEN "aborted" ELSE "merge"]
    /\ UNCHANGED <<aux_vars, table, seq_vars, par_vars, orch_vars, verify_vars, plan_vars, nparts, pworker,
                   presult, temp_files, created, dest, ld_rows, merge_failed>>

\* ATTACH of every valid temp file, CREATE TABLE .. UNION ALL BY NAME with
\* its file-by-file fallback, DETACH. A file whose ATTACH raised (it is
\* gone) or whose statement raised in the fallback (dropped) is left out.
Merge(l, dropped) ==
    /\ ld_pc[l] = "merge"
    /\ LET valid == ValidTempFiles(presult[l], PartsOf(l))
           attached == {i \in valid : TempFile(l, i) \in DOMAIN temp_files}
           merged == attached \ dropped
       IN /\ dropped \subseteq attached
          /\ dest' = [dest EXCEPT ![l] =
                         IF merged = {} THEN -1
                         ELSE SumOver([i \in merged |-> temp_files[TempFile(l, i)]],
                                      merged)]
          /\ merge_failed' = [merge_failed EXCEPT ![l] = merged # valid]
    /\ ld_pc' = [ld_pc EXCEPT ![l] = "cleanup"]
    /\ UNCHANGED <<aux_vars, table, seq_vars, par_vars, orch_vars, verify_vars, plan_vars, nparts, pworker,
                   presult, temp_files, created, ld_rows>>

\* os.remove of r['temp_file'] for every partition result, then
\* row_count = total_rows and results[table_name]
Cleanup(l) ==
    /\ ld_pc[l] = "cleanup"
    /\ temp_files' = [f \in DOMAIN temp_files \ {TempFile(l, i) : i \in PartsOf(l)}
                         |-> temp_files[f]]
    /\ ld_rows' = [ld_rows EXCEPT ![l] = TotalRows(presult[l], PartsOf(l))]
    /\ ld_pc' = [ld_pc EXCEPT ![l] = "done"]
    /\ UNCHANGED <<aux_vars, table, seq_vars, par_vars, orch_vars, verify_vars, plan_vars, nparts, pworker,
                   presult, created, dest, merge_failed>>

LoadNext ==
    \/ \E l \in Loads : StartLoad(l)
    \/ \E l \in Loads : \E i \in Parts : WorkerConnect(l, i)
    \/ \E l \in Loads : \E i \in Parts : WorkerConnectRaises(l, i)
    \/ \E l \in Loads : \E i \in Parts : \E r \in 0..MaxPartRows : WorkerRead(l, i, r)
    \/ \E l \in Loads : \E i \in Parts : \E w \in 0..MaxPartRows :
           WorkerReadRaises(l, i, w)
    \/ \E l \in Loads : JoinWorkers(l)
    \/ \E l \in Loads : \E d \in SUBSET Parts : Merge(l, d)
    \/ \E l \in Loads : Cleanup(l)

SpecLoad == LoadInit /\ [][LoadNext]_vars

\* C30: after a partition load the reported row count is the number of
\* rows in the destination table, also when the attach or the merge of a
\* staging store failed.
C30_ReportedRowsAreDestinationRows ==
    \A l \in Loads :
        ld_pc[l] = "done" =>
            ld_rows[l] = (IF dest[l] < 0 THEN 0 ELSE dest[l])

\* ---------------------------------------------- partition load: claims
\* the load l ran with no other load against the directory
RanAlone(l) == \A m \in Loads \ {l} : ld_pc[m] = "idle"

\* C12: one partition's failure does not abort its siblings. When a load
\* that ran alone and whose merge statements did not raise has ended, every
\* partition has a result; a partition whose read raised has rows 0 and an
\* error entry; the destination holds exactly the rows of the successful
\* partitions; and the reported row count is their sum.
C12_PartialFailureMergesTheRest ==
    \A l \in Loads :
        (ld_pc[l] = "done" /\ RanAlone(l) /\ ~merge_failed[l]) =>
            LET ok == {i \in PartsOf(l) : presult[l][i][1].success}
                total == SumOver([i \in ok |-> presult[l][i][1].rows], ok)
            IN /\ \A i \in PartsOf(l) : presult[l][i] # None
               /\ \A i \in PartsOf(l) \ ok :
                      presult[l][i][1].rows = 0 /\ presult[l][i][1].error
               /\ dest[l] = (IF total = 0 THEN -1 ELSE total)
               /\ ld_rows[l] = total

\* C12 witness: a load has ended in which one partition's read raised after
\* it had written rows, and a sibling's rows are in the destination.
C12_Witness ==
    \E l \in Loads :
        /\ ld_pc[l] = "done" /\ RanAlone(l) /\ ~merge_failed[l]
        /\ nparts[l] = MaxParts
        /\ \E i, j \in PartsOf(l) :
              /\ ~presult[l][i][1].success
              /\ presult[l][j][1].success /\ presult[l][j][1].rows > 0
              /\ dest[l] = presult[l][j][1].rows

\* C13: every staging file is deleted on every exit path of the load: a
\* file in the directory belongs to a load that is still running.
C13_StagingDeletedOnEveryExit ==
    \A f \in DOMAIN temp_files :
        \E l \in Loads : f \in created[l] /\ ld_pc[l] \notin {"done", "aborted"}

\* C14: a staging file is private to one worker: no two workers have the
\* same file open at the same time.
C14_StagingPrivatePerWorker ==
    \A l, m \in Loads : \A i, j \in Parts :
        (<<l, i>> # <<m, j>> /\ pworker[l][i] = "open" /\ pworker[m][j] = "open")
            => TempFile(l, i) # TempFile(m, j)

\* ================================== SmartSyncAgent.generate_sync_plan
\* the row counts and sizes _generate_default_plan compares with
SmallTableRows == 100000
LargeTableRows == 1000000
LargeSizeMb == 500

RowCounts == {SmallTableRows, SmallTableRows + 1, LargeTableRows + 1}
Sizes == {LargeSizeMb, LargeSizeMb + 1}

TableMetadata ==
    {m \in [row_count : RowCounts, size_mb : Sizes, is_partitioned : BOOLEAN,
            partition_count : 0..MaxParts] :
        m.is_partitioned <=> m.partition_count >= 1}

SyncStrategy(mode, use_partition, workers) ==
    [sync_mode |-> mode, use_partition |-> use_partition,
     num_workers |-> workers]

\* _generate_default_plan, one table
DefaultStrategy(meta) ==
    LET use_partition == meta.is_partitioned /\ meta.partition_count > 1
    IN IF meta.row_count > LargeTableRows \/ meta.size_mb > LargeSizeMb
       THEN SyncStrategy("fast", use_partition, 8)
       ELSE IF meta.row_count > SmallTableRows
       THEN SyncStrategy("fast", use_partition, 4)
       ELSE SyncStrategy("standard", use_partition, 2)

DefaultPlan == Some([t \in Tables |-> DefaultStrategy(metadata[t])])

\* the strategies a parsable response can hold, for any subset of the tables;
\* num_workers is s.get("num_workers", 4)
Recommendations ==
    UNION {[S -> {SyncStrategy(mode, part, 4) :
                     mode \in {"fast", "standard"}, part \in BOOLEAN}] :
           S \in SUBSET Tables}

\* execute_plan's choice of the load for one strategy
Route(strategy) ==
    IF strategy.sync_mode = "fast"
    THEN (IF strategy.use_partition THEN "fast_partition" ELSE "fast_chunks")
    ELSE "standard"

\* the destination after a load in which no read fails. run_fast_sync with
\* use_partition drops the table, starts one worker per partition that
\* get_partitions returns and merges their temp files: with no partition
\* there is no worker, no temp file, and no table is created
LoadedRows(meta, load) ==
    IF load = "fast_partition" /\ meta.partition_count = 0 THEN -1
    ELSE meta.row_count

PlanInit ==
    /\ SeqIdle
    /\ ParIdle
    /\ OrchIdle
    /\ LoadIdle
    /\ VerifyIdle
    /\ AuxIdle
    /\ table = <<>>
    /\ metadata \in [Tables -> TableMetadata]
    /\ advisor = "none"
    /\ plan = None
    /\ pl_pc = "start"
    /\ route = [t \in Tables |-> "none"]
    /\ loaded = [t \in Tables |-> -1]

\* self.llm.chat(...) raises: the call stands before the try block, the
\* exception leaves generate_sync_plan and SmartSyncAgent.run
AdvisorRaises ==
    /\ pl_pc = "start"
    /\ advisor' = "raise"
    /\ pl_pc' = "raised"
    /\ UNCHANGED <<aux_vars, table, seq_vars, par_vars, orch_vars, load_vars, verify_vars,
                   metadata, plan, route, loaded>>

\* the response holds no JSON object, or one json.loads rejects, or a
\* strategy without a table_name: the except clause returns the default plan
AdvisorUnusable(kind) ==
    /\ pl_pc = "start"
    /\ advisor' = kind
    /\ plan' = DefaultPlan
    /\ pl_pc' = "planned"
    /\ UNCHANGED <<aux_vars, table, seq_vars, par_vars, orch_vars, load_vars, verify_vars,
                   metadata, route, loaded>>

\* the response parses: the plan holds the strategies the response lists
AdvisorRecommends(rec) ==
    /\ pl_pc = "start"
    /\ advisor' = "json"
    /\ plan' = Some(rec)
    /\ pl_pc' = "planned"
    /\ UNCHANGED <<aux_vars, table, seq_vars, par_vars, orch_vars, load_vars, verify_vars,
                   metadata, route, loaded>>

\* execute_plan, the next strategy of the plan: the branch on sync_mode and
\* the use_partition argument
Dispatch(t) ==
    /\ pl_pc = "planned"
    /\ t \in DOMAIN plan[1]
    /\ route[t] = "none"
    /\ \A u \in DOMAIN plan[1] : u < t => route[u] # "none"
    /\ route' = [route EXCEPT ![t] = Route(plan[1][t])]
    /\ loaded' = [loaded EXCEPT ![t] =
                     LoadedRows(metadata[t], Route(plan[1][t]))]
    /\ UNCHANGED <<aux_vars, table, seq_vars, par_vars, orch_vars, load_vars, verify_vars,
                   metadata, advisor, plan, pl_pc>>

PlanNext ==
    \/ AdvisorRaises
    \/ \E kind \in {"nothing", "unparsable"} : AdvisorUnusable(kind)
    \/ \E rec \in Recommendations : AdvisorRecommends(rec)
    \/ \E t \in Tables : Dispatch(t)

SpecPlan == PlanInit /\ [][PlanNext]_vars

\* C29: a table without partitions whose strategy asks for the partition
\* load is loaded all the same: after run_fast_sync its destination table
\* exists and holds the source's rows.
C29_UnpartitionedTableIsLoaded ==
    \A t \in Tables :
        (route[t] = "fast_partition" /\ ~metadata[t].is_partitioned)
            => loaded[t] = metadata[t].row_count

\* ------------------------------------------------------- planner: claims
\* the load the default rule of the specification names for a table
RuleOfSpec(meta) ==
    IF meta.is_partitioned THEN "fast_partition"
    ELSE IF meta.row_count <= SmallTableRows THEN "standard"
    ELSE "fast_chunks"

\* C19: with no strategy from the advisor, a table with partitions is loaded
\* partition-parallel; otherwise a table whose row count is not above the
\* small-table threshold is loaded in sequential (standard) mode; every
\* other table is loaded by parallel ID chunks.
C19_DefaultRule ==
    \A t \in Tables :
        (advisor \in {"nothing", "unparsable"} /\ route[t] # "none")
            => route[t] = RuleOfSpec(metadata[t])

\* C20: when the advisor's call fails, returns nothing or returns something
\* unparsable, the default rule makes the plan and every analysed table has
\* a strategy.
C20_AdvisorFailureFallsBack ==
    advisor \in {"raise", "nothing", "unparsable"} =>
        /\ pl_pc = "planned"
        /\ plan = DefaultPlan

\* ===================================================================
\* The type mapper (oracle_type_to_pyarrow) and the two destination
\* schemas built from it: run_fast_sync's Arrow table and oracle_source's
\* dlt column hints.
\* ===================================================================
MaxPrecision == 20
MaxScale == 1

\* DATA_TYPE values of ALL_TAB_COLUMNS, some of them in lower case, and two
\* the mapper has no rule for
TypeNames ==
    {"NUMBER", "number", "INTEGER", "FLOAT", "BINARY_DOUBLE", "VARCHAR2",
     "clob", "DATE", "TIMESTAMP(6)", "TIMESTAMP(6) WITH TIME ZONE", "BLOB",
     "LONG RAW", "XMLTYPE", "ROWID"}

Precisions == {None} \cup {Some(p) : p \in 0..MaxPrecision}
Scales == {None} \cup {Some(k) : k \in (-1)..MaxScale}

\* str.upper() on the names above
Upper(name) ==
    CASE name = "number" -> "NUMBER"
      [] name = "clob" -> "CLOB"
      [] OTHER -> name

\* str.startswith('TIMESTAMP') on the names above
StartsWithTimestamp(name) ==
    name \in {"TIMESTAMP(6)", "TIMESTAMP(6) WITH TIME ZONE"}

\* a NUMBER column that is read as a float whatever its scale
NumberAlwaysFloat(precision, scale) == "float64"

\* the NUMBER branch of oracle_type_to_pyarrow
NumberToPyarrow(precision, scale) ==
    IF scale = Some(0) \/ scale = None
    THEN IF precision = None \/ precision[1] > 18 THEN "decimal(38,0)"
         ELSE IF precision[1] <= 4 THEN "int16"
         ELSE IF precision[1] <= 9 THEN "int32"
         ELSE "int64"
    ELSE "float64"

OracleTypeToPyarrow(oracle_type, precision, scale) ==
    LET t == Upper(oracle_type) IN
    IF t = "NUMBER" THEN NumberToPyarrow(precision, scale)
    ELSE IF t \in {"INTEGER", "INT", "SMALLINT"} THEN "int64"
    ELSE IF t \in {"FLOAT", "BINARY_FLOAT"} THEN "float32"
    ELSE IF t \in {"DOUBLE PRECISION", "BINARY_DOUBLE"} THEN "float64"
    ELSE IF t \in {"VARCHAR2", "VARCHAR", "NVARCHAR2", "CHAR", "NCHAR",
                   "CLOB", "NCLOB", "LONG"} THEN "string"
    ELSE IF t = "DATE" THEN "timestamp[s]"
    ELSE IF StartsWithTimestamp(t) THEN "timestamp[us]"
    ELSE IF t \in {"BLOB", "RAW", "LONG RAW"} THEN "binary"
    ELSE "string"

\* pa.types.is_integer, is_floating, is_decimal, is_timestamp
IsInteger(t) == t \in {"int16", "int32", "int64"}
IsFloating(t) == t \in {"float32", "float64"}
IsDecimal(t) == t = "decimal(38,0)"
IsTimestamp(t) == t \in {"timestamp[s]", "timestamp[us]"}

\* the data_type oracle_source derives from a field of the Arrow schema
DltType(t) ==
    IF t = "string" THEN "text"
    ELSE IF IsInteger(t) THEN "bigint"
    ELSE IF IsFloating(t) THEN "double"
    ELSE IF IsDecimal(t) THEN "decimal"
    ELSE IF IsTimestamp(t) THEN "timestamp"
    ELSE IF t = "binary" THEN "binary"
    ELSE "text"

TypesInit ==
    /\ column \in [oracle_type : TypeNames, precision : Precisions,
                   scale : Scales]
    /\ pa_schema = None
    /\ bulk_type = None
    /\ dlt_columns = None
    /\ ty_pc = "column"
    /\ StoreIdle
    /\ table = {}
    /\ SeqIdle
    /\ ParIdle
    /\ OrchIdle
    /\ LoadIdle
    /\ VerifyIdle
    /\ PlanIdle

\* get_table_schema_as_pyarrow: one field per row of ALL_TAB_COLUMNS
GetTableSchemaAsPyarrow ==
    /\ ty_pc = "column"
    /\ pa_schema' = Some(OracleTypeToPyarrow(column.oracle_type,
                                             column.precision, column.scale))
    /\ ty_pc' = "schema"
    /\ UNCHANGED <<core_vars, store_vars, column, bulk_type, dlt_columns>>

\* run_fast_sync: pa.Table.from_pylist(batch_rows, schema=pyarrow_schema)
\* and CREATE TABLE ... AS SELECT * FROM arrow_table
CreateTableFromArrow ==
    /\ ty_pc = "schema"
    /\ bulk_type = None
    /\ bulk_type' = pa_schema
    /\ ty_pc' = IF dlt_columns # None THEN "done" ELSE "schema"
    /\ UNCHANGED <<core_vars, store_vars, column, pa_schema, dlt_columns>>

\* oracle_source: the columns= argument of dlt.resource
OracleSourceColumns ==
    /\ ty_pc = "schema"
    /\ dlt_columns = None
    /\ dlt_columns' = Some(DltType(pa_schema[1]))
    /\ ty_pc' = IF bulk_type # None THEN "done" ELSE "schema"
    /\ UNCHANGED <<core_vars, store_vars, column, pa_schema, bulk_type>>

TypesNext ==
    \/ GetTableSchemaAsPyarrow
    \/ CreateTableFromArrow
    \/ OracleSourceColumns

SpecTypes == TypesInit /\ [][TypesNext]_vars

\* The canonical column types of the engine.
CanonicalTypes ==
    {"int16", "int32", "int64", "decimal(38,0)", "float32", "float64",
     "string", "timestamp[s]", "timestamp[us]", "binary"}

\* the type names oracle_type_to_pyarrow has a rule for
RecognizedTypes ==
    {"NUMBER", "INTEGER", "INT", "SMALLINT", "FLOAT", "BINARY_FLOAT",
     "DOUBLE PRECISION", "BINARY_DOUBLE", "VARCHAR2", "VARCHAR",
     "NVARCHAR2", "CHAR", "NCHAR", "CLOB", "NCLOB", "LONG", "DATE",
     "TIMESTAMP(6)", "TIMESTAMP(6) WITH TIME ZONE", "BLOB", "RAW",
     "LONG RAW"}

\* C21: the mapper returns a canonical type for every (type name,
\* precision, scale); a NUMBER of scale 0 is decimal(38,0) when its
\* precision is unknown or above 18, int16 up to 4 digits, int32 up to 9,
\* int64 up to 18; a NUMBER of a scale other than 0 is float64; a type
\* name without a rule is string.
C21_MapperRules ==
    ty_pc # "column" =>
        LET t == Upper(column.oracle_type)
            p == column.precision
            k == column.scale
            r == pa_schema[1]
        IN /\ pa_schema # None
           /\ r \in CanonicalTypes
           /\ (t = "NUMBER" /\ k = Some(0)) =>
                 /\ (p = None \/ p[1] > 18) => r = "decimal(38,0)"
                 /\ (p # None /\ p[1] <= 4) => r = "int16"
                 /\ (p # None /\ p[1] > 4 /\ p[1] <= 9) => r = "int32"
                 /\ (p # None /\ p[1] > 9 /\ p[1] <= 18) => r = "int64"
           /\ (t = "NUMBER" /\ k # None /\ k # Some(0)) => r = "float64"
           /\ t \notin RecognizedTypes => r = "string"

C21_Witness ==
    /\ ty_pc = "done"
    /\ column.oracle_type = "number"
    /\ column.scale = Some(0)
    /\ column.precision = Some(19)
    /\ pa_schema = Some("decimal(38,0)")

\* the canonical types a dlt data_type can stand for
TypesNamedBy(data_type) ==
    CASE data_type = "bigint" -> {"int64"}
      [] data_type = "double" -> {"float64"}
      [] data_type = "decimal" -> {"decimal(38,0)"}
      [] data_type = "timestamp" -> {"timestamp[s]", "timestamp[us]"}
      [] data_type = "binary" -> {"binary"}
      [] data_type = "text" -> {"string"}
      [] OTHER -> {}

\* C22: for the same source column the bulk path and the dlt path give the
\* destination column the same type.
C22_SameDestinationType ==
    ty_pc = "done" => bulk_type[1] \in TypesNamedBy(dlt_columns[1])

\* ===================================================================
\* The watermark file of run_fast_sync (_update_dlt_state):
\* ~/.dlt/pipelines/<pipeline_name>/state/state.json
\* ===================================================================
MaxWrites == 4

Pipelines == {"oracle_to_duckdb", "other"}
LastValues == 1..MaxWm

\* the state a missing file is replaced by
NewState == [first_run |-> TRUE, resources |-> [t \in Tables |-> None]]

\* a write that starts from an empty resources dict
StateReplaced(state, table_name, value) ==
    [first_run |-> FALSE,
     resources |-> [NewState.resources EXCEPT ![table_name] = Some(value)]]

\* state["sources"]["oracle_source"]["resources"][table_name] =
\* {"last_value": last_value}; state["first_run"] = False
StateAfterUpdate(state, table_name, value) ==
    [first_run |-> FALSE,
     resources |-> [state.resources EXCEPT ![table_name] = Some(value)]]

StoreInit ==
    /\ state_json = [p \in Pipelines |-> None]
    /\ st_before = state_json
    /\ st_call = None
    /\ st_writes = 0
    /\ TypesIdle
    /\ table = {}
    /\ SeqIdle
    /\ ParIdle
    /\ OrchIdle
    /\ LoadIdle
    /\ VerifyIdle
    /\ PlanIdle

\* _update_dlt_state(pipeline_name, table_name, last_value): the file is
\* loaded, or a new state is made when it does not exist, one entry is
\* assigned and the file is written back
UpdateDltStateCall(pipeline_name, table_name, value) ==
    /\ st_writes < MaxWrites
    /\ LET state == IF state_json[pipeline_name] # None
                    THEN state_json[pipeline_name][1]
                    ELSE NewState
       IN state_json' = [state_json EXCEPT ![pipeline_name] =
              Some(StateAfterUpdate(state, table_name, value))]
    /\ st_before' = state_json
    /\ st_call' = Some([pipeline_name |-> pipeline_name,
                        table_name |-> table_name,
                        last_value |-> value])
    /\ st_writes' = st_writes + 1
    /\ UNCHANGED <<core_vars, types_vars>>

StoreNext ==
    \E p \in Pipelines, t \in Tables, v \in LastValues :
        UpdateDltStateCall(p, t, v)

SpecStore == StoreInit /\ [][StoreNext]_vars

\* the record of table t in pipeline p: None when there is none
RecordOf(files, p, t) ==
    IF files[p] = None THEN None ELSE files[p][1].resources[t]

\* C23: the store holds one record per (pipeline, table); a write for table
\* T of pipeline P sets that record to the given value and leaves every
\* other record as it was before the write.
C23_WriteFrame ==
    st_call # None =>
        LET c == st_call[1] IN
        \A p \in Pipelines, t \in Tables :
            RecordOf(state_json, p, t) =
                IF p = c.pipeline_name /\ t = c.table_name
                THEN Some(c.last_value)
                ELSE RecordOf(st_before, p, t)

\* C23 witness: a write for one table was made while another table of the
\* same pipeline, and a table of the other pipeline, had a record.
C23_Witness ==
    /\ st_call # None
    /\ LET c == st_call[1] IN
       /\ \E t \in Tables : /\ t # c.table_name
                            /\ RecordOf(st_before, c.pipeline_name, t) # None
       /\ \E p \in Pipelines : /\ p # c.pipeline_name
                               /\ st_before[p] # None
       /\ RecordOf(st_before, c.pipeline_name, c.table_name)
              \notin {None, Some(c.last_value)}

====
